---- MODULE Spec2Model ----
(***************************************************************************)
(* Coordinate validation scripts of rotv (scripts/validate_coordinates.py, *)
(* scripts/coordinate_report.py, scripts/validate_water_features.py).      *)
(*                                                                         *)
(* Representation.  A coordinate value (a Python float) is an integer      *)
(* number of 1e-5 degrees; a distance is an integer number of metres,      *)
(* rounded up, so that  d > 500  on the integer is  d > 500  on the real   *)
(* value.  Text is TLA+ strings: names, CSV fields, issues, suggestions.   *)
(* A destination is a function from its JSON keys to strings, so a key     *)
(* may be absent from its domain.                                          *)
(***************************************************************************)
EXTENDS Integers, Sequences, FiniteSets, TLC

(***************************************************************************)
(* Python built-ins used by the scripts                                    *)
(***************************************************************************)

\* abs()
Abs(x) == IF x < 0 THEN 0 - x ELSE x

RECURSIVE IndexFrom(_, _, _)
\* str.find(c) over a string of single characters: first index >= i, or 0
IndexFrom(c, alphabet, i) ==
    IF i > Len(alphabet) THEN 0
    ELSE IF SubSeq(alphabet, i, i) = c THEN i
    ELSE IndexFrom(c, alphabet, i + 1)

UpperChars == "ABCDEFGHIJKLMNOPQRSTUVWXYZ"
LowerChars == "abcdefghijklmnopqrstuvwxyz"
DigitChars == "0123456789"

\* str.lower() of one character
LowerChar(c) ==
    LET ks == {k \in 1..Len(UpperChars) : SubSeq(UpperChars, k, k) = c}
    IN IF ks = {} THEN c
       ELSE LET k == CHOOSE k \in ks : TRUE IN SubSeq(LowerChars, k, k)

RECURSIVE LowerFrom(_, _)
LowerFrom(s, i) ==
    IF i > Len(s) THEN ""
    ELSE LowerChar(SubSeq(s, i, i)) \o LowerFrom(s, i + 1)

\* str.lower()
Lower(s) == LowerFrom(s, 1)

\* the substring test  needle in hay
Contains(needle, hay) ==
    \E i \in 1..(Len(hay) - Len(needle) + 1) :
        SubSeq(hay, i, i + Len(needle) - 1) = needle

\* str.startswith
StartsWith(s, prefix) ==
    Len(s) >= Len(prefix) /\ SubSeq(s, 1, Len(prefix)) = prefix

RECURSIVE DigitsValue(_, _, _)
\* value of the decimal digits s[i..], continuing from acc
DigitsValue(s, i, acc) ==
    IF i > Len(s) THEN acc
    ELSE DigitsValue(s, i + 1, acc * 10 + (IndexFrom(SubSeq(s, i, i), DigitChars, 1) - 1))

AllDigits(s) ==
    \A i \in 1..Len(s) : IndexFrom(SubSeq(s, i, i), DigitChars, 1) # 0

\* number of decimals a coordinate value keeps (1e-5 degree)
Decimals == 5

RECURSIVE PadRight(_, _)
PadRight(s, n) == IF Len(s) >= n THEN s ELSE PadRight(s \o "0", n)

\* the text forms float() reads here: [-]digits[.digits] with at most
\* Decimals decimals; anything else (the empty string too) is a ValueError
IsFloat(s) ==
    LET body == IF StartsWith(s, "-") THEN SubSeq(s, 2, Len(s)) ELSE s
        dot  == IndexFrom(".", body, 1)
        ip   == IF dot = 0 THEN body ELSE SubSeq(body, 1, dot - 1)
        fp   == IF dot = 0 THEN "" ELSE SubSeq(body, dot + 1, Len(body))
    IN /\ Len(ip) > 0
       /\ AllDigits(ip)
       /\ AllDigits(fp)
       /\ Len(fp) <= Decimals

\* float(s), in 1e-5 degree
Float(s) ==
    LET neg  == StartsWith(s, "-")
        body == IF neg THEN SubSeq(s, 2, Len(s)) ELSE s
        dot  == IndexFrom(".", body, 1)
        ip   == IF dot = 0 THEN body ELSE SubSeq(body, 1, dot - 1)
        fp   == IF dot = 0 THEN "" ELSE SubSeq(body, dot + 1, Len(body))
        v    == DigitsValue(ip, 1, 0) * 100000 + DigitsValue(PadRight(fp, Decimals), 1, 0)
    IN IF neg THEN 0 - v ELSE v

RECURSIVE PadLeft(_, _)
PadLeft(s, n) == IF Len(s) >= n THEN s ELSE PadLeft("0" \o s, n)

\* f"{x:.6f}" of a coordinate value
Format6f(x) ==
    (IF x < 0 THEN "-" ELSE "")
        \o ToString(Abs(x) \div 100000) \o "."
        \o PadLeft(ToString(Abs(x) % 100000), Decimals) \o "0"

\* f"{d:.0f}" of a distance: distances are whole metres here (rounded up,
\* where the format rounds to the nearest), so the digits are printed as is
Format0f(d) == ToString(d)

RECURSIVE JoinFrom(_, _, _)
JoinFrom(sep, parts, i) ==
    IF i > Len(parts) THEN ""
    ELSE IF i = Len(parts) THEN parts[i]
    ELSE parts[i] \o sep \o JoinFrom(sep, parts, i + 1)

\* sep.join(parts)
Join(sep, parts) == JoinFrom(sep, parts, 1)

RECURSIVE SqrtBetween(_, _, _)
\* largest r in lo..hi with r*r <= n
SqrtBetween(n, lo, hi) ==
    IF lo >= hi THEN lo
    ELSE LET mid == (lo + hi + 1) \div 2
         IN IF mid * mid <= n THEN SqrtBetween(n, mid, hi)
            ELSE SqrtBetween(n, lo, mid - 1)

\* math.sqrt, rounded down
ISqrt(n) == SqrtBetween(n, 0, 46340)

(***************************************************************************)
(* haversine_distance                                                      *)
(***************************************************************************)

\* math.radians of a latitude >= 0, in 1e-4 radian
Radians(lat) == ((lat \div 100) * 17453) \div 100000

\* math.cos of a latitude, in 1e-4 (series in the angle)
Cos(lat) ==
    LET x  == Radians(Abs(lat))
        x2 == (x * x) \div 10000
        x4 == (x2 * x2) \div 10000
        x6 == (x4 * x2) \div 10000
        x8 == (x6 * x2) \div 10000
    IN 10000 - (x2 \div 2) + (x4 \div 24) - (x6 \div 720) + (x8 \div 40320)

\* d * f / 1000 without leaving the integer range
Scale(d, f) == (d \div 1000) * f + ((d % 1000) * f) \div 1000

RECURSIVE Hypot(_, _)
\* sqrt(a*a + b*b) for a, b >= 0
Hypot(a, b) ==
    IF a <= 32000 /\ b <= 32000 THEN ISqrt(a * a + b * b)
    ELSE 10 * Hypot(a \div 10, b \div 10)

\* Distance between two points in metres (rounded up).  R = 6371000 makes
\* one 1e-5 degree of arc 111.195 cm; over the few kilometres the scripts
\* compare, sin x = x and 2*atan2(sqrt a, sqrt(1-a)) = 2*sqrt a, so that
\* R*c = R*sqrt(delta_phi^2 + cos(phi1)*cos(phi2)*delta_lambda^2).
haversine_distance(lat1, lon1, lat2, lon2) ==
    LET delta_phi    == Abs(lat2 - lat1)
        delta_lambda == Abs(lon2 - lon1)
        cc == ISqrt(Cos(lat1) * Cos(lat2))
        dy == Scale(delta_phi, 111195)
        dx == Scale(delta_lambda, (111195 * cc) \div 10000)
    IN (Hypot(dy, dx) + 99) \div 100

(***************************************************************************)
(* validate_coordinates.py: configuration and the pure checks              *)
(***************************************************************************)

\* Cuyahoga Valley National Park approximate bounding box
CVNP_BOUNDS ==
    [min_lat |-> 4110000, max_lat |-> 4138000,
     min_lng |-> -8170000, max_lng |-> -8150000]

\* Keywords that indicate water features
WATER_KEYWORDS ==
    <<"dam", "river", "lake", "pond", "marsh", "falls", "waterfall",
      "creek", "canal", "lock", "aqueduct", "reservoir">>

\* a water feature further than this from the nearest USGS site is an issue
WaterThreshold == 500

\* display names longer than this are cut in the suggestion
TruncLen == 80

\* variant: the boundary of the region is outside
is_within_bounds_open(lat, lng) ==
    /\ CVNP_BOUNDS.min_lat < lat /\ lat < CVNP_BOUNDS.max_lat
    /\ CVNP_BOUNDS.min_lng < lng /\ lng < CVNP_BOUNDS.max_lng

is_within_bounds(lat, lng) ==
    /\ CVNP_BOUNDS.min_lat <= lat /\ lat <= CVNP_BOUNDS.max_lat
    /\ CVNP_BOUNDS.min_lng <= lng /\ lng <= CVNP_BOUNDS.max_lng

is_water_feature(name) ==
    LET name_lower == Lower(name)
    IN \E k \in 1..Len(WATER_KEYWORDS) : Contains(WATER_KEYWORDS[k], name_lower)

\* dest[key] and the conversion of lines 124-125: the exception raised, if
\* any, else the value, <<>> standing for None
ParseCoord(dest, key) ==
    IF key \notin DOMAIN dest THEN [exc |-> "KeyError", val |-> <<>>]
    ELSE IF dest[key] = "" THEN [exc |-> "", val |-> <<>>]
    ELSE IF ~IsFloat(dest[key]) THEN [exc |-> "ValueError", val |-> <<>>]
    ELSE [exc |-> "", val |-> <<Float(dest[key])>>]

\* dest.get(key, '')
Get(dest, key) == IF key \in DOMAIN dest THEN dest[key] ELSE ""

RECURSIVE ParseSitesFrom(_, _, _, _)
\* the loop over the lines of an RDB response; a line is its tab-separated
\* parts.  A line is kept when it starts with USGS, has at least 5 parts and
\* parts[4], parts[5] exist and convert; any other line is skipped.
ParseSitesFrom(lat, lng, lines, k) ==
    IF k > Len(lines) THEN <<>>
    ELSE LET parts == lines[k]
             rest  == ParseSitesFrom(lat, lng, lines, k + 1)
         IN IF /\ StartsWith(parts[1], "USGS")
               /\ Len(parts) >= 5
               /\ IsFloat(parts[5])
               /\ Len(parts) >= 6
               /\ IsFloat(parts[6])
            THEN <<[name |-> parts[3],
                    lat |-> Float(parts[5]),
                    lng |-> Float(parts[6]),
                    distance_m |-> haversine_distance(lat, lng, Float(parts[5]), Float(parts[6]))]>>
                 \o rest
            ELSE rest

RECURSIVE InsertByDistance_unstable(_, _)
\* variant: a site is put before the sites at the same distance
InsertByDistance_unstable(s, x) ==
    IF s = <<>> THEN <<x>>
    ELSE IF s[Len(s)].distance_m < x.distance_m THEN Append(s, x)
    ELSE Append(InsertByDistance_unstable(SubSeq(s, 1, Len(s) - 1), x), s[Len(s)])

RECURSIVE InsertByDistance(_, _)
\* s with site x put after every site that is not further than x
InsertByDistance(s, x) ==
    IF s = <<>> THEN <<x>>
    ELSE IF s[Len(s)].distance_m <= x.distance_m THEN Append(s, x)
    ELSE Append(InsertByDistance(SubSeq(s, 1, Len(s) - 1), x), s[Len(s)])

RECURSIVE SortedByDistance(_, _)
\* sorted(sites, key=lambda x: x['distance_m']): the first k sites, sorted
SortedByDistance(sites, k) ==
    IF k = 0 THEN <<>>
    ELSE InsertByDistance(SortedByDistance(sites, k - 1), sites[k])

\* get_nearby_usgs_sites, lines 73-96: the list  sites  built from what the
\* HTTP request produced, an exception or the lines of the response
parsed_sites(lat, lng, reply) ==
    IF reply.kind = "raise" THEN <<>>
    ELSE ParseSitesFrom(lat, lng, reply.lines, 1)

\* Query USGS for water monitoring sites near coordinates: the sites of the
\* response, nearest first; nothing when the request raised
get_nearby_usgs_sites(lat, lng, reply) ==
    LET found == parsed_sites(lat, lng, reply)
    IN SortedByDistance(found, Len(found))

\* Reverse geocode: the display name (the address it also returns is not
\* used).  reply is an exception or the decoded JSON object.
reverse_geocode(reply) ==
    IF reply.kind = "raise" THEN ""
    ELSE Get(reply.data, "display_name")

\* lines 130-132
bounds_check(lat, lng) ==
    IF ~is_within_bounds(lat, lng) THEN <<"Outside CVNP bounds">> ELSE <<>>

\* variant: a site at exactly the threshold is already an issue
water_check_inclusive(usgs_sites) ==
    IF usgs_sites = <<>> THEN [issues |-> <<>>, suggestions |-> <<>>]
    ELSE LET nearest == usgs_sites[1]
         IN IF nearest.distance_m >= WaterThreshold
            THEN [issues |-> <<"Water feature " \o Format0f(nearest.distance_m)
                                \o "m from nearest USGS site">>,
                  suggestions |-> <<"Consider: " \o Format6f(nearest.lat) \o ", "
                                     \o Format6f(nearest.lng)
                                     \o " (" \o nearest.name \o ")">>]
            ELSE [issues |-> <<>>,
                  suggestions |-> <<"Near USGS site: " \o nearest.name
                                     \o " (" \o Format0f(nearest.distance_m) \o "m)">>]

\* lines 137-143: what the water-feature check appends
water_check(usgs_sites) ==
    IF usgs_sites = <<>> THEN [issues |-> <<>>, suggestions |-> <<>>]
    ELSE LET nearest == usgs_sites[1]
         IN IF nearest.distance_m > WaterThreshold
            THEN [issues |-> <<"Water feature " \o Format0f(nearest.distance_m)
                                \o "m from nearest USGS site">>,
                  suggestions |-> <<"Consider: " \o Format6f(nearest.lat) \o ", "
                                     \o Format6f(nearest.lng)
                                     \o " (" \o nearest.name \o ")">>]
            ELSE [issues |-> <<>>,
                  suggestions |-> <<"Near USGS site: " \o nearest.name
                                     \o " (" \o Format0f(nearest.distance_m) \o "m)">>]

\* variant: the issue is raised unless both county names occur
geocode_check_both_counties(display_name) ==
    IF display_name = "" THEN [issues |-> <<>>, suggestions |-> <<>>]
    ELSE [issues |->
              IF ~Contains("Summit", display_name) \/ ~Contains("Cuyahoga", display_name)
              THEN <<"Geocode outside expected counties">> ELSE <<>>,
          suggestions |->
              IF Len(display_name) > TruncLen
              THEN <<"Geocoded to: " \o SubSeq(display_name, 1, TruncLen) \o "...">>
              ELSE <<"Geocoded to: " \o display_name>>]

\* variant: a display name of exactly the limit is cut too
geocode_check_cut_at_limit(display_name) ==
    IF display_name = "" THEN [issues |-> <<>>, suggestions |-> <<>>]
    ELSE [issues |->
              IF ~Contains("Summit", display_name) /\ ~Contains("Cuyahoga", display_name)
              THEN <<"Geocode outside expected counties">> ELSE <<>>,
          suggestions |->
              IF Len(display_name) >= TruncLen
              THEN <<"Geocoded to: " \o SubSeq(display_name, 1, TruncLen) \o "...">>
              ELSE <<"Geocoded to: " \o display_name>>]

\* lines 147-151: what the geocode check appends
geocode_check(display_name) ==
    IF display_name = "" THEN [issues |-> <<>>, suggestions |-> <<>>]
    ELSE [issues |->
              IF ~Contains("Summit", display_name) /\ ~Contains("Cuyahoga", display_name)
              THEN <<"Geocode outside expected counties">> ELSE <<>>,
          suggestions |->
              IF Len(display_name) > TruncLen
              THEN <<"Geocoded to: " \o SubSeq(display_name, 1, TruncLen) \o "...">>
              ELSE <<"Geocoded to: " \o display_name>>]

\* variant: a single issue is not yet a warning
final_status_needs_two(issues) == IF Len(issues) > 1 THEN "WARNING" ELSE "OK"

\* lines 153-156
final_status(issues) == IF issues # <<>> THEN "WARNING" ELSE "OK"

(***************************************************************************)
(* Inputs: the destination list the API returns, and what the two          *)
(* external services answer                                                *)
(***************************************************************************)

\* longest destination list
MaxDest == 2

\* destination records {name, latitude, longitude}; a coordinate is a
\* decimal string, the empty string, or absent
Destinations ==
    { [name |-> "Peninsula Dam", latitude |-> "41.30",   longitude |-> "-81.40"],
      [name |-> "Peninsula Dam", latitude |-> "41.2425", longitude |-> "-81.5488"],
      [name |-> "Boston Store",  latitude |-> "41.10",   longitude |-> "-81.70"],
      [name |-> "Boston Store",  latitude |-> "95.0",    longitude |-> "-81.5589"],
      [name |-> "Boston Store",  latitude |-> "",        longitude |-> "-81.5589"],
      [name |-> "Boston Store",  latitude |-> "41.2631", longitude |-> ""],
      [name |-> "Boston Store",  longitude |-> "-81.5589"],
      [name |-> "Boston Store",  latitude |-> ""] }

DestinationLists == UNION { [1..n -> Destinations] : n \in 0..MaxDest }

\* lines of USGS RDB responses, as their tab-separated parts
RdbComment == <<"# US Geological Survey">>
RdbHeader  == <<"agency_cd", "site_no", "station_nm", "site_tp_cd", "dec_lat_va", "dec_long_va">>
RdbShort   == <<"USGS", "04206425", "CUYAHOGA R AT JAITE OH", "ST", "41.2870">>
RdbNoLat   == <<"USGS", "04206413", "FURNACE RUN NR EVERETT OH", "ST", "", "-81.5790">>
SiteLock29 == <<"USGS", "04206212", "CUYAHOGA R AT PENINSULA OH", "ST", "41.2432", "-81.5429">>
SiteWell   == <<"USGS", "411436081323800", "SU-12 PENINSULA WELL", "GW", "41.2432", "-81.5429">>
SiteBoston == <<"USGS", "04206220", "CUYAHOGA R AT BOSTON OH", "ST", "41.2550", "-81.5600">>
SiteNear   == <<"USGS", "04206215", "CUYAHOGA R BL PENINSULA OH", "ST", "41.2446", "-81.5510">>

\* what the request to waterservices.usgs.gov produces: an exception
\* (network error, timeout, undecodable body) or the lines of the response
UsgsReplies ==
    { [kind |-> "raise", lines |-> <<>>],
      [kind |-> "ok", lines |-> <<RdbComment, RdbHeader, RdbShort>>],
      [kind |-> "ok", lines |-> <<RdbComment, RdbHeader, SiteBoston, RdbShort, SiteLock29, SiteWell>>],
      [kind |-> "ok", lines |-> <<RdbHeader, RdbNoLat, SiteNear>>] }

NameSummit   == "Peninsula, Boston Township, Summit County, Ohio, 44264, United States"
NamePortage  == "Lock 29 Trailhead, Mill Street West, Peninsula, Portage County, Ohio, 44264, USA"
NameLong     == "Towpath Trail, Cuyahoga Valley National Park, Peninsula, OH, 44264, United States"

\* what the request to nominatim produces: an exception (network error,
\* timeout, body that is not JSON) or the decoded JSON object
GeocodeReplies ==
    { [kind |-> "raise", data |-> [error |-> ""]],
      [kind |-> "ok", data |-> [error |-> "Unable to geocode"]],
      [kind |-> "ok", data |-> [display_name |-> NameSummit]],
      [kind |-> "ok", data |-> [display_name |-> NamePortage]],
      [kind |-> "ok", data |-> [display_name |-> NameLong]] }

(***************************************************************************)
(* validate_coordinates.py: main and validate_destination                  *)
(***************************************************************************)

VARIABLES
    destinations,   \* the list main loaded from the API
    pc,             \* where the run is
    i,              \* index of the destination of the current iteration
    lat, lng,       \* validate_destination: the parsed coordinates, <<>> for None
    issues,         \* validate_destination: issues
    suggestions,    \* validate_destination: suggestions
    sites,          \* get_nearby_usgs_sites: the sites read from the response
    usgs_sites,     \* validate_destination: result of get_nearby_usgs_sites
    display_name,   \* validate_destination: result of reverse_geocode
    result,         \* main: the dictionary validate_destination returned
    stats,          \* main: counters per status
    rows,           \* the CSV rows written after the header row
    requests,       \* the requests made to the external services so far
    error,          \* the exception that ended the run, "" if none
    report          \* coordinate_report.py: the issues list

vars == <<destinations, pc, i, lat, lng, issues, suggestions, sites,
          usgs_sites, display_name, result, stats, rows, requests, error, report>>

NoResult == [status |-> "", issues |-> <<>>, suggestions |-> <<>>]

\* main, lines 162-173: the list is loaded, the header row written, the
\* counters are zero
Init ==
    /\ destinations \in DestinationLists
    /\ pc = "loop"
    /\ i = 0
    /\ lat = <<>> /\ lng = <<>>
    /\ issues = <<>> /\ suggestions = <<>>
    /\ sites = <<>>
    /\ usgs_sites = <<>>
    /\ display_name = ""
    /\ result = NoResult
    /\ stats = [OK |-> 0, WARNING |-> 0, MISSING |-> 0]
    /\ rows = <<>>
    /\ requests = <<>>
    /\ error = ""
    /\ report = <<>>

dest == destinations[i]

\* main, lines 175-182: the next destination; validate_destination is called
\* with fresh locals
LoopNext ==
    /\ pc = "loop"
    /\ i < Len(destinations)
    /\ i' = i + 1
    /\ pc' = "validate"
    /\ lat' = <<>> /\ lng' = <<>>
    /\ issues' = <<>> /\ suggestions' = <<>>
    /\ sites' = <<>>
    /\ usgs_sites' = <<>>
    /\ display_name' = ""
    /\ UNCHANGED <<destinations, result, stats, rows, requests, error, report>>

\* validate_destination, lines 120-132: the coordinates are read and
\* converted (latitude first), absent coordinates return MISSING, else the
\* bounds are checked
Entry ==
    /\ pc = "validate"
    /\ LET plat == ParseCoord(dest, "latitude")
           plng == ParseCoord(dest, "longitude")
       IN IF plat.exc # ""
          THEN /\ error' = plat.exc
               /\ pc' = "aborted"
               /\ UNCHANGED <<lat, lng, issues, result>>
          ELSE IF plng.exc # ""
          THEN /\ error' = plng.exc
               /\ pc' = "aborted"
               /\ lat' = plat.val
               /\ UNCHANGED <<lng, issues, result>>
          ELSE IF plat.val = <<>> \/ plng.val = <<>>
          THEN /\ result' = [status |-> "MISSING", issues |-> <<"No coordinates">>,
                             suggestions |-> <<>>]
               /\ pc' = "returned"
               /\ lat' = plat.val /\ lng' = plng.val
               /\ UNCHANGED <<issues, error>>
          ELSE /\ lat' = plat.val /\ lng' = plng.val
               /\ issues' = issues \o bounds_check(plat.val[1], plng.val[1])
               /\ pc' = "water"
               /\ UNCHANGED <<result, error>>
    /\ UNCHANGED <<destinations, i, suggestions, sites, usgs_sites,
                   display_name, stats, rows, requests, report>>

\* variant: USGS is asked whatever the name
UsgsRequests_unconditional(name, la, lo) ==
    <<[api |-> "usgs", dest |-> i, lat |-> la, lng |-> lo]>>

\* the requests validate_destination makes to USGS for a destination
UsgsRequests(name, la, lo) ==
    IF is_water_feature(name)
    THEN <<[api |-> "usgs", dest |-> i, lat |-> la, lng |-> lo]>>
    ELSE <<>>

\* validate_destination, lines 134-143: for water features, check USGS data
WaterCheck ==
    /\ pc = "water"
    /\ LET reqs == UsgsRequests(dest.name, lat[1], lng[1])
       IN IF reqs # <<>>
          THEN \E reply \in UsgsReplies :
                 LET sorted == get_nearby_usgs_sites(lat[1], lng[1], reply)
                     out    == water_check(sorted)
                 IN /\ sites' = parsed_sites(lat[1], lng[1], reply)
                    /\ usgs_sites' = sorted
                    /\ requests' = requests \o reqs
                    /\ issues' = issues \o out.issues
                    /\ suggestions' = suggestions \o out.suggestions
          ELSE UNCHANGED <<sites, usgs_sites, requests, issues, suggestions>>
    /\ pc' = "geocode"
    /\ UNCHANGED <<destinations, i, lat, lng, display_name, result, stats, rows,
                   error, report>>

\* the requests validate_destination makes to the geocoder for a destination
GeocodeRequests(la, lo) ==
    <<[api |-> "nominatim", dest |-> i, lat |-> la, lng |-> lo]>>

\* validate_destination, lines 145-158: reverse geocode to check location,
\* then the status and the return
GeocodeCheck ==
    /\ pc = "geocode"
    /\ \E reply \in GeocodeReplies :
         LET dn  == reverse_geocode(reply)
             out == geocode_check(dn)
         IN /\ display_name' = dn
            /\ issues' = issues \o out.issues
            /\ suggestions' = suggestions \o out.suggestions
    /\ requests' = requests \o GeocodeRequests(lat[1], lng[1])
    /\ result' = [status |-> final_status(issues'), issues |-> issues',
                  suggestions |-> suggestions']
    /\ pc' = "returned"
    /\ UNCHANGED <<destinations, i, lat, lng, sites, usgs_sites, stats, rows,
                   error, report>>

\* variant: the new row is put first
Record_prepend ==
    /\ pc = "returned"
    /\ stats' = [stats EXCEPT ![result.status] = @ + 1]
    /\ rows' = <<<<dest.name, Get(dest, "latitude"), Get(dest, "longitude"),
                   result.status, Join("; ", result.issues),
                   Join("; ", result.suggestions)>>>> \o rows
    /\ pc' = "loop"
    /\ UNCHANGED <<destinations, i, lat, lng, issues, suggestions, sites,
                   usgs_sites, display_name, result, requests, error, report>>

\* main, lines 183-197: the counter of the status, then the row of this
\* destination (the pause that follows changes nothing)
Record ==
    /\ pc = "returned"
    /\ stats' = [stats EXCEPT ![result.status] = @ + 1]
    /\ rows' = Append(rows, <<dest.name, Get(dest, "latitude"), Get(dest, "longitude"),
                              result.status, Join("; ", result.issues),
                              Join("; ", result.suggestions)>>)
    /\ pc' = "loop"
    /\ UNCHANGED <<destinations, i, lat, lng, issues, suggestions, sites,
                   usgs_sites, display_name, result, requests, error, report>>

\* main, lines 199-202: the loop is over, the summary is printed
Summary ==
    /\ pc = "loop"
    /\ i = Len(destinations)
    /\ pc' = "done"
    /\ UNCHANGED <<destinations, i, lat, lng, issues, suggestions, sites,
                   usgs_sites, display_name, result, stats, rows, requests, error, report>>

Next ==
    \/ LoopNext
    \/ Entry
    \/ WaterCheck
    \/ GeocodeCheck
    \/ Record
    \/ Summary

Spec == Init /\ [][Next]_vars

(***************************************************************************)
(* coordinate_report.py: the known-coordinate comparison                   *)
(***************************************************************************)

\* Known good coordinates from USGS and NPS sources
KNOWN_COORDINATES ==
    [n \in {"Peninsula Dam", "Lock 29 Peninsula", "Brandywine Falls",
            "Blue Hen Falls", "Bridal Veil Falls", "Beaver Marsh",
            "Deep Lock Quarry", "Tinkers Creek Gorge"} |->
        CASE n = "Peninsula Dam"       -> <<4124250, -8155000>>
          [] n = "Lock 29 Peninsula"   -> <<4124250, -8155000>>
          [] n = "Brandywine Falls"    -> <<4127670, -8153820>>
          [] n = "Blue Hen Falls"      -> <<4126590, -8156570>>
          [] n = "Bridal Veil Falls"   -> <<4137620, -8153540>>
          [] n = "Beaver Marsh"        -> <<4118140, -8158320>>
          [] n = "Deep Lock Quarry"    -> <<4123310, -8155100>>
          [] n = "Tinkers Creek Gorge" -> <<4137620, -8153540>>]

\* a stored coordinate further than this from the known one is reported
KnownThreshold == 100

\* the destination lists given to coordinate_report.py
ReportDestinations ==
    { [name |-> "Peninsula Dam",    latitude |-> "41.2425",  longitude |-> "-81.55"],
      [name |-> "Peninsula Dam",    latitude |-> "41.24339", longitude |-> "-81.54985"],
      [name |-> "Peninsula Dam",    latitude |-> "41.2425",  longitude |-> "-81.5488"],
      [name |-> "Peninsula Dam",    latitude |-> "41.30",    longitude |-> "-81.40"],
      [name |-> "peninsula dam",    latitude |-> "41.30",    longitude |-> "-81.40"],
      [name |-> "Brandywine Falls", latitude |-> "41.2800",  longitude |-> "-81.5382"],
      [name |-> "Boston Store",     latitude |-> "41.2631",  longitude |-> "-81.5589"],
      [name |-> "Blue Hen Falls",   latitude |-> "",         longitude |-> "-81.5657"],
      [name |-> "Beaver Marsh",     longitude |-> "-81.5832"] }

ReportLists == UNION { [1..n -> ReportDestinations] : n \in 0..MaxDest }

\* variant: a distance of exactly the threshold is already reported
known_check_inclusive(name, la, lo) ==
    IF name \in DOMAIN KNOWN_COORDINATES
    THEN LET known_lat == KNOWN_COORDINATES[name][1]
             known_lng == KNOWN_COORDINATES[name][2]
             distance  == haversine_distance(la, lo, known_lat, known_lng)
         IN IF distance >= KnownThreshold
            THEN <<[name |-> name,
                    current |-> <<la, lo>>,
                    suggested |-> <<known_lat, known_lng>>,
                    distance |-> distance,
                    source |-> "Known/USGS"]>>
            ELSE <<>>
    ELSE <<>>

\* lines 91-101: what the known-coordinate comparison appends for a
\* destination stored at (la, lo)
known_check(name, la, lo) ==
    IF name \in DOMAIN KNOWN_COORDINATES
    THEN LET known_lat == KNOWN_COORDINATES[name][1]
             known_lng == KNOWN_COORDINATES[name][2]
             distance  == haversine_distance(la, lo, known_lat, known_lng)
         IN IF distance > KnownThreshold
            THEN <<[name |-> name,
                    current |-> <<la, lo>>,
                    suggested |-> <<known_lat, known_lng>>,
                    distance |-> distance,
                    source |-> "Known/USGS"]>>
            ELSE <<>>
    ELSE <<>>

RECURSIVE InsertWorstFirst(_, _)
\* s with issue x put after every issue that is not nearer than x
InsertWorstFirst(s, x) ==
    IF s = <<>> THEN <<x>>
    ELSE IF s[Len(s)].distance >= x.distance THEN Append(s, x)
    ELSE Append(InsertWorstFirst(SubSeq(s, 1, Len(s) - 1), x), s[Len(s)])

RECURSIVE SortedWorstFirst(_, _)
\* issues.sort(key=lambda x: -x['distance']): the first k issues, sorted
SortedWorstFirst(s, k) ==
    IF k = 0 THEN <<>>
    ELSE InsertWorstFirst(SortedWorstFirst(s, k - 1), s[k])

\* main, lines 71-80: the list is loaded, issues is empty (the USGS sites
\* fetched at line 76 are only listed at the end)
InitReport ==
    /\ destinations \in ReportLists
    /\ pc = "report_loop"
    /\ i = 0
    /\ lat = <<>> /\ lng = <<>>
    /\ issues = <<>> /\ suggestions = <<>>
    /\ sites = <<>>
    /\ usgs_sites = <<>>
    /\ display_name = ""
    /\ result = NoResult
    /\ stats = [OK |-> 0, WARNING |-> 0, MISSING |-> 0]
    /\ rows = <<>>
    /\ requests = <<>>
    /\ error = ""
    /\ report = <<>>

\* main, lines 82-101: one iteration of the loop over the destinations
ReportStep ==
    /\ pc = "report_loop"
    /\ i < Len(destinations)
    /\ i' = i + 1
    /\ LET d    == destinations[i + 1]
           plat == ParseCoord(d, "latitude")
           plng == ParseCoord(d, "longitude")
       IN IF plat.exc # "" \/ plng.exc # ""
          THEN /\ error' = (IF plat.exc # "" THEN plat.exc ELSE plng.exc)
               /\ pc' = "report_aborted"
               /\ UNCHANGED <<lat, lng, report>>
          ELSE /\ lat' = plat.val /\ lng' = plng.val
               /\ report' = IF plat.val = <<>> \/ plng.val = <<>> THEN report
                            ELSE report \o known_check(d.name, plat.val[1], plng.val[1])
               /\ UNCHANGED <<pc, error>>
    /\ UNCHANGED <<destinations, issues, suggestions, sites, usgs_sites,
                   display_name, result, stats, rows, requests>>

\* main, lines 103-104: sort by distance (worst first)
ReportSort ==
    /\ pc = "report_loop"
    /\ i = Len(destinations)
    /\ report' = SortedWorstFirst(report, Len(report))
    /\ pc' = "report_sorted"
    /\ UNCHANGED <<destinations, i, lat, lng, issues, suggestions, sites,
                   usgs_sites, display_name, result, stats, rows, requests, error>>

NextReport ==
    \/ ReportStep
    \/ ReportSort

SpecReport == InitReport /\ [][NextReport]_vars

(***************************************************************************)
(* validate_water_features.py: the linear scan for the nearest site        *)
(***************************************************************************)

RECURSIVE NearestFrom(_, _, _, _, _)
\* the loop of lines 76-80 from site k on; <<>> stands for None and for
\* float('inf'), which every distance is below
NearestFrom(la, lo, usgs, k, best) ==
    IF k > Len(usgs) THEN best
    ELSE LET distance == haversine_distance(la, lo, usgs[k].lat, usgs[k].lng)
         IN IF best.min_distance = <<>> \/ distance < best.min_distance[1]
            THEN NearestFrom(la, lo, usgs, k + 1,
                             [nearest |-> <<usgs[k]>>, min_distance |-> <<distance>>])
            ELSE NearestFrom(la, lo, usgs, k + 1, best)

\* Find nearest USGS site to given coordinates
find_nearest_usgs_site(la, lo, usgs) ==
    NearestFrom(la, lo, usgs, 1, [nearest |-> <<>>, min_distance |-> <<>>])

\* validate_water_features.py: WATER_KEYWORDS
WATER_KEYWORDS_water_features ==
    <<"dam", "river", "lake", "pond", "marsh", "falls", "waterfall",
      "creek", "canal", "lock", "aqueduct", "reservoir", "gorge">>

\* validate_water_features.py: is_water_feature
is_water_feature_water_features(name) ==
    LET name_lower == Lower(name)
    IN \E k \in 1..Len(WATER_KEYWORDS_water_features) :
           Contains(WATER_KEYWORDS_water_features[k], name_lower)

(***************************************************************************)
(* The two scripts classifying the names of one destination list:          *)
(* validate_coordinates.validate_destination line 135 and the filter of    *)
(* validate_water_features.main                                            *)
(***************************************************************************)

ClassifyNames ==
    { "Peninsula Dam", "Boston Store", "damage", "DAM", "Gorge Overlook",
      "Tinkers Creek Gorge", "Brandywine Falls", "Lock 29", "GORGE",
      "", "Kendall Lake", "Ledges" }

ClassifyLists ==
    UNION { [1..n -> {[name |-> nm] : nm \in ClassifyNames}] : n \in 0..MaxDest }

InitClassify ==
    /\ destinations \in ClassifyLists
    /\ pc = "classify_loop"
    /\ i = 0
    /\ lat = <<>> /\ lng = <<>>
    /\ issues = <<>> /\ suggestions = <<>>
    /\ sites = <<>>
    /\ usgs_sites = <<>>
    /\ display_name = ""
    /\ result = NoResult
    /\ stats = [OK |-> 0, WARNING |-> 0, MISSING |-> 0]
    /\ rows = <<>>
    /\ requests = <<>>
    /\ error = ""
    /\ report = <<>>

\* the answer of each script's is_water_feature for the next destination
ClassifyStep ==
    /\ pc = "classify_loop"
    /\ i < Len(destinations)
    /\ i' = i + 1
    /\ LET name == destinations[i + 1].name
       IN report' = Append(report,
              [name           |-> name,
               orchestrator   |-> is_water_feature(name),
               water_features |-> is_water_feature_water_features(name)])
    /\ UNCHANGED <<destinations, pc, lat, lng, issues, suggestions, sites,
                   usgs_sites, display_name, result, stats, rows, requests, error>>

\* the end of the list
ClassifyDone ==
    /\ pc = "classify_loop"
    /\ i = Len(destinations)
    /\ pc' = "classified"
    /\ UNCHANGED <<destinations, i, lat, lng, issues, suggestions, sites,
                   usgs_sites, display_name, result, stats, rows, requests,
                   error, report>>

NextClassify ==
    \/ ClassifyStep
    \/ ClassifyDone

SpecClassify == InitClassify /\ [][NextClassify]_vars

(***************************************************************************)
(* Properties                                                              *)
(***************************************************************************)

\* the destination has no coordinate: a coordinate field is the empty
\* string or absent
HasNoCoordinate(d) == Get(d, "latitude") = "" \/ Get(d, "longitude") = ""

HasBothCoordinates(d) == ~HasNoCoordinate(d)

\* validate_destination has been entered for the current destination and
\* has got past reading its coordinates
EntryDone == i > 0 /\ pc \notin {"validate", "report_loop", "report_sorted", "report_aborted"}

\* C1: for every destination whose latitude or longitude is the empty
\* string or absent, validate_destination returns MISSING with exactly one
\* issue and no suggestion, and does not raise.
C1_MissingForNoCoordinate ==
    (EntryDone /\ HasNoCoordinate(dest)) =>
        /\ pc # "aborted"
        /\ result.status = "MISSING"
        /\ Len(result.issues) = 1
        /\ result.suggestions = <<>>

\* C2: for a destination with both coordinates the returned status is
\* WARNING exactly when the issue sequence is non-empty, OK exactly when it
\* is empty, and never MISSING, whatever the suggestions.
C2_StatusFollowsIssues ==
    (pc = "returned" /\ HasBothCoordinates(dest)) =>
        /\ result.status \in {"OK", "WARNING"}
        /\ (result.status = "WARNING") <=> (Len(result.issues) > 0)
        /\ (result.status = "OK") <=> (Len(result.issues) = 0)

\* C2 witness: a returned result with two suggestions and no issue is OK
C2_Witness ==
    /\ pc = "returned"
    /\ HasBothCoordinates(dest)
    /\ Len(result.issues) = 0
    /\ Len(result.suggestions) = 2
    /\ result.status = "OK"

\* C3: the run of main always reaches its end, with a row for every input
\* destination: it ends nowhere else than at its end.
C3_RunCompletes ==
    /\ pc # "aborted"
    /\ pc = "done" => Len(rows) = Len(destinations)

CountStatus(st) == Cardinality({k \in 1..Len(rows) : rows[k][4] = st})

\* C4: the rows written so far are those of the first destinations, in
\* input order; each counter is the number of rows with its status, so the
\* counters sum to the number of rows; at the end there are n rows.
C4_RowsAndCounters ==
    /\ pc \in {"loop", "done"} => Len(rows) = i
    /\ pc = "done" => Len(rows) = Len(destinations)
    /\ \A k \in 1..Len(rows) :
          /\ rows[k][1] = destinations[k].name
          /\ rows[k][2] = Get(destinations[k], "latitude")
          /\ rows[k][3] = Get(destinations[k], "longitude")
    /\ \A st \in {"OK", "WARNING", "MISSING"} : stats[st] = CountStatus(st)
    /\ stats.OK + stats.WARNING + stats.MISSING = Len(rows)

\* C4 witness: a finished run over two different destinations, one row each
C4_Witness ==
    /\ pc = "done"
    /\ Len(rows) = 2
    /\ rows[1][1] = "Peninsula Dam" /\ rows[1][4] = "OK"
    /\ rows[2][1] = "Boston Store" /\ rows[2][4] = "MISSING"
    /\ stats = [OK |-> 1, WARNING |-> 0, MISSING |-> 1]

\* the destination's name is a key of the known table and its stored
\* coordinate is more than 100 m from the authoritative one
KnownFar(d) ==
    /\ HasBothCoordinates(d)
    /\ d.name \in DOMAIN KNOWN_COORDINATES
    /\ haversine_distance(Float(d.latitude), Float(d.longitude),
                          KNOWN_COORDINATES[d.name][1], KNOWN_COORDINATES[d.name][2]) > 100

\* the text of the authoritative coordinate of a name, as a suggestion
\* would carry it
KnownText(name) ==
    Format6f(KNOWN_COORDINATES[name][1]) \o ", " \o Format6f(KNOWN_COORDINATES[name][2])

\* an issue of the region, water-feature or geocode check
IsOtherIssue(s) ==
    \/ s = "Outside CVNP bounds"
    \/ s = "Geocode outside expected counties"
    \/ StartsWith(s, "Water feature ")

RECURSIVE ExpectedReport(_)
\* the issues the first k destinations contribute, by the rule of C6
ExpectedReport(k) ==
    IF k = 0 THEN <<>>
    ELSE LET d == destinations[k]
         IN ExpectedReport(k - 1) \o
            (IF KnownFar(d)
             THEN <<[name |-> d.name,
                     current |-> <<Float(d.latitude), Float(d.longitude)>>,
                     suggested |-> KNOWN_COORDINATES[d.name],
                     distance |-> haversine_distance(
                                      Float(d.latitude), Float(d.longitude),
                                      KNOWN_COORDINATES[d.name][1],
                                      KNOWN_COORDINATES[d.name][2]),
                     source |-> "Known/USGS"]>>
             ELSE <<>>)

NearestIndex(list) ==
    CHOOSE k \in 1..Len(list) :
        /\ \A j \in 1..Len(list) : list[k].distance_m <= list[j].distance_m
        /\ \A j \in 1..(k - 1) : list[j].distance_m > list[k].distance_m

\* the number of region issues at the head of the issue list
RegionIssues == IF issues # <<>> /\ issues[1] = "Outside CVNP bounds" THEN 1 ELSE 0

\* C7: after the water-feature check of a destination with coordinates:
\* nothing is appended when the name is no water feature or the site list
\* is empty; one issue and one suggestion carrying the nearest site's
\* coordinate when the nearest site is further than 500 m; one
\* informational suggestion and no issue when it is at 500 m or nearer.
C7_WaterCheck ==
    pc = "geocode" =>
        IF ~is_water_feature(dest.name) \/ sites = <<>>
        THEN Len(issues) = RegionIssues /\ suggestions = <<>>
        ELSE LET n == sites[NearestIndex(sites)]
             IN IF n.distance_m > 500
                THEN /\ Len(issues) = RegionIssues + 1
                     /\ StartsWith(issues[Len(issues)], "Water feature ")
                     /\ Len(suggestions) = 1
                     /\ suggestions[1] = "Consider: " \o Format6f(n.lat) \o ", "
                                           \o Format6f(n.lng) \o " (" \o n.name \o ")"
                ELSE /\ Len(issues) = RegionIssues
                     /\ Len(suggestions) = 1
                     /\ StartsWith(suggestions[1], "Near USGS site: " \o n.name)

\* C7 witness: the nearest site exactly 500 m away gives the informational
\* suggestion and no issue
C7_Witness ==
    /\ pc = "geocode"
    /\ sites # <<>>
    /\ sites[NearestIndex(sites)].distance_m = 500
    /\ issues = <<>>
    /\ suggestions = <<"Near USGS site: CUYAHOGA R AT PENINSULA OH (500m)">>

\* C8: after the USGS sites of a destination were read: with no site, the
\* linear scan returns no site and the sorted list is empty; otherwise the
\* linear scan and the head of the sorted list are the same site, at the
\* minimum distance, the first in the order of the response among those at
\* that distance.
C8_NearestSite ==
    pc = "geocode" =>
        LET scan == find_nearest_usgs_site(lat[1], lng[1], sites)
        IN IF sites = <<>>
           THEN scan.nearest = <<>> /\ usgs_sites = <<>>
           ELSE LET n == sites[NearestIndex(sites)]
                IN /\ scan.nearest = <<n>>
                   /\ scan.min_distance = <<n.distance_m>>
                   /\ usgs_sites[1] = n
                   /\ Len(usgs_sites) = Len(sites)

\* C8 witness: of two sites at the same, smallest distance the one read
\* first is chosen, a further site having been read before both
C8_Witness ==
    /\ pc = "geocode"
    /\ Len(sites) = 3
    /\ sites[2].distance_m = sites[3].distance_m
    /\ sites[1].distance_m > sites[2].distance_m
    /\ sites[2].name # sites[3].name
    /\ usgs_sites[1].name = sites[2].name

\* what the water-feature check has put into suggestions
WaterSuggestions == IF usgs_sites = <<>> THEN 0 ELSE 1

GeocodeIssues ==
    Cardinality({k \in 1..Len(result.issues) :
                    result.issues[k] = "Geocode outside expected counties"})

\* C9: in the result of a destination with coordinates: with a display name
\* the geocode issue is present exactly when the name contains neither
\* 'Summit' nor 'Cuyahoga', and exactly one suggestion is added, the whole
\* name when it has at most 80 characters, else its first 80 characters and
\* an ellipsis; with no display name nothing is added.
C9_GeocodeCheck ==
    (pc = "returned" /\ HasBothCoordinates(dest)) =>
        IF display_name = ""
        THEN /\ GeocodeIssues = 0
             /\ Len(result.suggestions) = WaterSuggestions
        ELSE /\ GeocodeIssues =
                  (IF ~Contains("Summit", display_name) /\ ~Contains("Cuyahoga", display_name)
                   THEN 1 ELSE 0)
             /\ GeocodeIssues = 1 => result.issues[Len(result.issues)]
                                        = "Geocode outside expected counties"
             /\ Len(result.suggestions) = WaterSuggestions + 1
             /\ LET sg == result.suggestions[Len(result.suggestions)]
                IN IF Len(display_name) <= 80
                   THEN sg = "Geocoded to: " \o display_name
                   ELSE /\ sg = "Geocoded to: " \o SubSeq(display_name, 1, 80) \o "..."
                        /\ Len(sg) = 13 + 80 + 3

\* C9 witness: a display name of exactly 80 characters outside both
\* counties is kept whole and raises the issue
C9_Witness ==
    /\ pc = "returned"
    /\ HasBothCoordinates(dest)
    /\ Len(display_name) = 80
    /\ GeocodeIssues = 1
    /\ result.suggestions[Len(result.suggestions)] = "Geocoded to: " \o display_name

Requests(api, k) ==
    {r \in 1..Len(requests) : requests[r].api = api /\ requests[r].dest = k}

\* C10: for every destination at most one request goes to USGS and at most
\* one to the geocoder, and nothing is asked for a destination without
\* coordinates; requests are made for the destination being validated
\* only, USGS is asked for it only if it is a water feature, and a
\* destination with coordinates that was returned had its one geocoder
\* request.
C10_RequestsPerDestination ==
    /\ \A k \in 1..Len(destinations) :
        /\ Cardinality(Requests("usgs", k)) <= 1
        /\ Cardinality(Requests("nominatim", k)) <= 1
        /\ HasNoCoordinate(destinations[k]) =>
              (Requests("usgs", k) = {} /\ Requests("nominatim", k) = {})
        /\ k > i => (Requests("usgs", k) = {} /\ Requests("nominatim", k) = {})
    /\ (i > 0 /\ Requests("usgs", i) # {}) => is_water_feature(dest.name)
    /\ (pc = "returned" /\ HasBothCoordinates(dest)) =>
          Cardinality(Requests("nominatim", i)) = 1

\* C10 witness: a finished run in which a water feature whose two requests
\* gave nothing was asked for once each, and a destination without
\* coordinates not at all
C10_Witness ==
    /\ pc = "done"
    /\ Len(destinations) = 2
    /\ is_water_feature(destinations[1].name)
    /\ rows[1][6] = ""
    /\ Cardinality(Requests("usgs", 1)) = 1
    /\ Cardinality(Requests("nominatim", 1)) = 1
    /\ rows[2][4] = "MISSING"
    /\ Len(requests) = 2

\* C11: each script's classifier answers true for a name exactly when the
\* lower-cased name contains one of the 13 terms dam, river, lake, pond,
\* marsh, falls, waterfall, creek, canal, lock, aqueduct, reservoir, gorge,
\* so the two scripts give the same answer for every name.
C11_ClassifiersAgree ==
    \A k \in 1..Len(report) :
        LET listed == \E t \in {"dam", "river", "lake", "pond", "marsh", "falls",
                                "waterfall", "creek", "canal", "lock", "aqueduct",
                                "reservoir", "gorge"} :
                          Contains(t, Lower(report[k].name))
        IN /\ report[k].orchestrator = listed
           /\ report[k].water_features = listed
           /\ report[k].orchestrator = report[k].water_features

\* the closed region: latitude and longitude each in the closed interval
InRegion(la, lo) ==
    /\ la \in CVNP_BOUNDS.min_lat..CVNP_BOUNDS.max_lat
    /\ lo \in CVNP_BOUNDS.min_lng..CVNP_BOUNDS.max_lng

\* the latitudes and longitudes at, just inside and just outside the edges
EdgeLats ==
    {CVNP_BOUNDS.min_lat + d : d \in -1..1} \cup {CVNP_BOUNDS.max_lat + d : d \in -1..1}

EdgeLngs ==
    {CVNP_BOUNDS.min_lng + d : d \in -1..1} \cup {CVNP_BOUNDS.max_lng + d : d \in -1..1}

\* how often the out-of-region issue occurs in an issue list
OutOfRegionIssues(list) ==
    Cardinality({k \in 1..Len(list) : list[k] = "Outside CVNP bounds"})

\* C12: is_within_bounds is true exactly for the points of the closed
\* region, the four edges and corners included (a fact about the function
\* alone, looked at before the first destination); once validate_destination
\* has run the region check of a destination with coordinates, the
\* out-of-region issue is in the issue list once if the coordinate is not
\* in the closed region and not at all if it is, the region check has
\* added no suggestion, and a destination without coordinates never gets
\* the out-of-region issue.
C12_RegionCheck ==
    /\ i = 0 =>
          \A la \in EdgeLats, lo \in EdgeLngs : is_within_bounds(la, lo) <=> InRegion(la, lo)
    /\ (pc \in {"water", "geocode"}) =>
          /\ OutOfRegionIssues(issues) = IF InRegion(lat[1], lng[1]) THEN 0 ELSE 1
          /\ pc = "water" => suggestions = <<>>
    /\ pc = "returned" =>
          OutOfRegionIssues(result.issues) =
              IF HasBothCoordinates(dest) /\ ~InRegion(lat[1], lng[1]) THEN 1 ELSE 0

\* C12 witness: a destination on the south-west corner of the region has
\* passed the region check without an issue, and was returned OK
C12_Witness ==
    /\ pc = "returned"
    /\ dest.latitude = "41.10" /\ dest.longitude = "-81.70"
    /\ lat = <<CVNP_BOUNDS.min_lat>> /\ lng = <<CVNP_BOUNDS.min_lng>>
    /\ result.status = "OK"
    /\ result.issues = <<>>

\* a coordinate in the valid range: latitude in [-90, 90] and longitude in
\* [-180, 180] degrees
InRange(la, lo) ==
    /\ la \in -(90 * 10^Decimals)..(90 * 10^Decimals)
    /\ lo \in -(180 * 10^Decimals)..(180 * 10^Decimals)

\* C13: a destination whose coordinate is outside the valid range is
\* rejected as InvalidInput: validate_destination does not go on to its
\* checks with such a coordinate and returns neither OK nor WARNING for it.
C13_OutOfRangeRejected ==
    (EntryDone /\ lat # <<>> /\ lng # <<>> /\ ~InRange(lat[1], lng[1])) =>
        /\ error = "InvalidInput"
        /\ pc \notin {"water", "geocode"}
        /\ result.status \notin {"OK", "WARNING"}

====
